---- MODULE Spec2Model ----
(***************************************************************************)
(* Signal lifecycle engine of ProfitOptimizedTradingBot (src/boy.py).      *)
(*                                                                         *)
(* Units.  Time is in minutes (timedelta(minutes=5) is 5).  A price is an  *)
(* integer number of 1/100 units (1800.0 is 180000); a level computed by   *)
(* create_signal is an integer number of 1/1000000 units, so that          *)
(* entry * (1 + k * volatility) is exact: volatility is in 1/1000          *)
(* (0.002 is 2) and a multiplier k is in 1/10 (0.7 is 7).                 *)
(***************************************************************************)
EXTENDS Integers, Sequences, FiniteSets, TLC

\* ------------------------------------------------------------ bounds
NumPairs == 2
MaxSignals == 2

\* ------------------------------------------------------------ constants
PAIRS == <<"XAUUSD", "EURUSD", "GBPUSD", "GBPJPY", "USDJPY">>

None == -1

NoReason == "none"

Pairs == 1 .. (IF NumPairs < Len(PAIRS) THEN NumPairs ELSE Len(PAIRS))

base_price == <<180000, 108, 126, 16000, 14000>>

CooldownMinutes == 5

ScalpingMinutes == 30

IntradayMinutes == 240

SnapshotEvery == 10

Directions == {"BUY", "SELL"}

Strategies == {"scalping", "intraday"}

Reasons == {"tp1", "tp2", "tp3", "sl"}

\* random.uniform(0.001, 0.005), in 1/1000
VolRange == 1 .. 5

\* The draws the running tasks are checked with: one volatility, one sign of the
\* simulated price movement, one direction, the strategy whose expiry is reached.
\* create_signal and close_signal are checked on their whole input ranges under
\* FactorySpec and CloseSpec.
VolSamples == {2}

SignSamples == {1}

DirectionSamples == {"BUY"}

StrategySamples == {"scalping"}

\* trend_strength values above the 0.8 threshold, in percent
ConfSamples == {85}

\* the instants at which the wall clock is read: the start, and an instant after
\* both a cooldown armed at the start and the expiry of a scalping signal
Instants == {0, ScalpingMinutes + CooldownMinutes}

VARIABLES now, market_open, high_impact_news, live_prices, signal_cooldown,
          performance, signals_db, performance_db, gen, mon, pu

vars == <<now, market_open, high_impact_news, live_prices, signal_cooldown,
          performance, signals_db, performance_db, gen, mon, pu>>

\* ------------------------------------------------------------ pure functions

\* k * volatility applied to entry with sign s, in 1/1000000
Level(entry, s, k, volatility) == entry * (10000 + s * k * volatility)

\* take-profit multipliers with the second intraday target at the first
TpMultFlat(strategy) ==
    IF strategy = "scalping" THEN <<10, 15, 20>> ELSE <<15, 15, 40>>

TpMult(strategy) ==
    IF strategy = "scalping" THEN <<10, 15, 20>> ELSE <<15, 25, 40>>

\* the intraday stop multiplier used for both strategies
SlMultWide(strategy) == 12

SlMult(strategy) == IF strategy = "scalping" THEN 7 ELSE 12

TpSign(direction) == IF direction = "BUY" THEN 1 ELSE -1

SlSign(direction) == IF direction = "BUY" THEN -1 ELSE 1

Horizon(strategy) ==
    IF strategy = "scalping" THEN ScalpingMinutes ELSE IntradayMinutes

\* the record built by create_signal, with the clock value of each read
NewSignal(pair, direction, strategy, entry, confidence, volatility, t_expiry, t_created) ==
    [pair |-> pair,
     direction |-> direction,
     strategy |-> strategy,
     entry |-> entry,
     tp1 |-> Level(entry, TpSign(direction), TpMult(strategy)[1], volatility),
     tp2 |-> Level(entry, TpSign(direction), TpMult(strategy)[2], volatility),
     tp3 |-> Level(entry, TpSign(direction), TpMult(strategy)[3], volatility),
     sl |-> Level(entry, SlSign(direction), SlMult(strategy), volatility),
     expiry |-> t_expiry + Horizon(strategy),
     status |-> "active",
     confidence |-> confidence,
     created_at |-> t_created,
     closed_at |-> None,
     close_reason |-> NoReason]

NoSignal == [pair |-> 0]

\* a cooldown of no length
ArmedNow(t) == t

\* the cooldown-until written by create_signal
ArmedUntil(t) == t + CooldownMinutes

\* a cooldown that still blocks at its cooldown-until
is_cooldown_inclusive(pair) ==
    /\ signal_cooldown[pair] # None
    /\ now <= signal_cooldown[pair]

is_cooldown(pair) ==
    /\ signal_cooldown[pair] # None
    /\ now < signal_cooldown[pair]

\* fetch_simulated_price: base +/- volatility * base
fetch_simulated_price(pair, volatility, sign) ==
    base_price[pair] + (sign * volatility * base_price[pair]) \div 1000

\* close_signal without its close_reason assignment
ClosedNoReason(signal, t, close_type) ==
    [signal EXCEPT !.status = "closed", !.closed_at = t]

\* the fields close_signal sets on its argument
Closed(signal, t, close_type) ==
    [signal EXCEPT !.status = "closed", !.closed_at = t, !.close_reason = close_type]

\* the counter close_signal increments
\* every close counted as a tp1 hit
HitAlwaysTp1(perf, close_type) == [perf EXCEPT !.tp1_hits = @ + 1]

Hit(perf, close_type) ==
    IF close_type = "tp1" THEN [perf EXCEPT !.tp1_hits = @ + 1]
    ELSE IF close_type = "tp2" THEN [perf EXCEPT !.tp2_hits = @ + 1]
    ELSE IF close_type = "tp3" THEN [perf EXCEPT !.tp3_hits = @ + 1]
    ELSE [perf EXCEPT !.sl_hits = @ + 1]

SnapshotDue(perf) == perf.total_signals % SnapshotEvery = 0

Percent == 100

\* the denominator without the max(1, ...)
DenominatorRaw(perf) == perf.total_signals

\* max(1, self.performance['total_signals'])
Denominator(perf) == IF perf.total_signals > 1 THEN perf.total_signals ELSE 1

\* (hits / total_signals) * 100, in whole percents
Rate(hits, total_signals) == (hits * Percent) \div total_signals

\* the figures of the /stats reply; a division by zero raises instead
stats(perf) ==
    LET total_signals == Denominator(perf)
    IN IF total_signals = 0
       THEN [raised |-> TRUE]
       ELSE [raised |-> FALSE,
             total_signals |-> total_signals,
             tp1_rate |-> Rate(perf.tp1_hits, total_signals),
             tp2_rate |-> Rate(perf.tp2_hits, total_signals),
             tp3_rate |-> Rate(perf.tp3_hits, total_signals),
             sl_rate |-> Rate(perf.sl_hits, total_signals),
             win_rate |-> Percent - Rate(perf.sl_hits, total_signals)]

\* signals_db.fetch({"status": "active"}).items, as keys with their records
ActiveKeys(db) == {k \in 1 .. Len(db) : db[k].status = "active"}

RECURSIVE KeySeq(_)
KeySeq(S) ==
    IF S = {} THEN <<>>
    ELSE LET k == CHOOSE x \in S : \A y \in S : x <= y
         IN <<k>> \o KeySeq(S \ {k})

\* a fetch with no status filter
FetchAll(db) == [n \in 1 .. Len(db) |-> [key |-> n, signal |-> db[n]]]

FetchActive(db) == [n \in 1 .. Cardinality(ActiveKeys(db)) |->
                      [key |-> KeySeq(ActiveKeys(db))[n],
                       signal |-> db[KeySeq(ActiveKeys(db))[n]]]]

\* market_hours_checker's decision from New York weekday and hour
MarketOpenAt(weekday, hour) ==
    IF weekday = 4 /\ hour >= 17 THEN FALSE
    ELSE IF weekday >= 5 THEN (weekday = 6 /\ hour >= 17)
    ELSE TRUE

\* the generator's locals when it is between two ticks
GenIdle(pc) == [pc |-> pc, i |-> 0, direction |-> "", strategy |-> "", entry |-> 0,
                confidence |-> 0, volatility |-> 0, t_expiry |-> 0,
                signal |-> NoSignal]

\* the monitor's locals when it is between two ticks
MonIdle(pc) == [pc |-> pc, j |-> 0, items |-> <<>>, close_type |-> NoReason]

\* ------------------------------------------------------------ initial state
Init ==
    /\ now = 0
    /\ market_open = FALSE
    /\ high_impact_news = FALSE
    /\ live_prices = [p \in Pairs |-> None]
    /\ signal_cooldown = [p \in Pairs |-> None]
    /\ performance = [total_signals |-> 0, tp1_hits |-> 0, tp2_hits |-> 0,
                      tp3_hits |-> 0, sl_hits |-> 0]
    /\ signals_db = <<>>
    /\ performance_db = {}
    /\ gen = GenIdle("sleep")
    /\ mon = MonIdle("sleep")
    /\ pu = 0

\* ------------------------------------------------------------ environment tasks

\* the wall clock
Tick ==
    /\ \E t \in Instants :
          /\ now < t
          /\ now' = t
    /\ UNCHANGED <<market_open, high_impact_news, live_prices, signal_cooldown,
                   performance, signals_db, performance_db, gen, mon, pu>>

\* market_hours_checker: one iteration
MarketHoursChecker ==
    /\ \E weekday \in 0 .. 6, hour \in {9, 17} :
          market_open' = MarketOpenAt(weekday, hour)
    /\ UNCHANGED <<now, high_impact_news, live_prices, signal_cooldown, performance,
                   signals_db, performance_db, gen, mon, pu>>

\* news_monitor: one iteration
NewsMonitor ==
    /\ high_impact_news' \in BOOLEAN
    /\ UNCHANGED <<now, market_open, live_prices, signal_cooldown, performance,
                   signals_db, performance_db, gen, mon, pu>>

\* price_updater: the market_open test that starts a pass over PAIRS
PriceStart ==
    /\ pu = 0
    /\ market_open
    /\ pu' = 1
    /\ UNCHANGED <<now, market_open, high_impact_news, live_prices, signal_cooldown,
                   performance, signals_db, performance_db, gen, mon>>

\* price_updater: the update of one pair
PriceUpdate ==
    /\ pu \in Pairs
    /\ \E volatility \in VolSamples, sign \in SignSamples :
          live_prices' = [live_prices EXCEPT
                            ![pu] = fetch_simulated_price(pu, volatility, sign)]
    /\ pu' = IF pu + 1 \in Pairs THEN pu + 1 ELSE 0
    /\ UNCHANGED <<now, market_open, high_impact_news, signal_cooldown, performance,
                   signals_db, performance_db, gen, mon>>

\* ------------------------------------------------------------ signal_generator

\* a generator that does not look at the flag
SessionIgnored == TRUE

\* the market-open flag as the generator reads it
SessionOpen == market_open

\* is_news_blackout: the flag and the 70% draw
is_news_blackout(draw) == high_impact_news /\ draw

\* a generator whose exception ends its thread
GenCrashed == GenIdle("dead")

\* where the generator is after its except clause has logged an exception
GenOnError == GenIdle("sleep")

\* the generator after the body of the for loop: the next pair, or time.sleep(60)
GenNextPair ==
    IF gen.i + 1 \in Pairs
    THEN [GenIdle("gate") EXCEPT !.i = gen.i + 1]
    ELSE GenIdle("sleep")

\* time.sleep(60) returns
GenWake ==
    /\ gen.pc = "sleep"
    /\ gen' = GenIdle("start")
    /\ UNCHANGED <<now, market_open, high_impact_news, live_prices, signal_cooldown,
                   performance, signals_db, performance_db, mon, pu>>

\* the market_open test that starts a pass over PAIRS
GenStart ==
    /\ gen.pc = "start"
    /\ gen' = IF SessionOpen THEN [GenIdle("gate") EXCEPT !.i = 1] ELSE GenIdle("sleep")
    /\ UNCHANGED <<now, market_open, high_impact_news, live_prices, signal_cooldown,
                   performance, signals_db, performance_db, mon, pu>>

\* generate_signal up to the call of create_signal
GenGate ==
    /\ gen.pc = "gate"
    /\ \E draw \in BOOLEAN, strong \in BOOLEAN, strategy \in StrategySamples,
          direction \in DirectionSamples, confidence \in ConfSamples :
          IF \/ is_cooldown(gen.i)
             \/ ~SessionOpen
             \/ is_news_blackout(draw)
             \/ live_prices[gen.i] = None
             \/ ~strong
             \/ Len(signals_db) >= MaxSignals
          THEN gen' = GenNextPair
          ELSE gen' = [gen EXCEPT !.pc = "levels", !.direction = direction,
                                  !.strategy = strategy, !.confidence = confidence,
                                  !.entry = live_prices[gen.i]]
    /\ UNCHANGED <<now, market_open, high_impact_news, live_prices, signal_cooldown,
                   performance, signals_db, performance_db, mon, pu>>

\* random.uniform(0.001, 0.005) in create_signal: a sampled value, or the value a
\* caller of create_signal has pinned
VolDraws == IF gen.volatility = 0 THEN VolSamples ELSE {gen.volatility}

\* create_signal: the volatility draw, the levels and the clock read of expiry
GenLevels ==
    /\ gen.pc = "levels"
    /\ \E volatility \in VolDraws :
          gen' = [gen EXCEPT !.pc = "stamp", !.volatility = volatility, !.t_expiry = now]
    /\ UNCHANGED <<now, market_open, high_impact_news, live_prices, signal_cooldown,
                   performance, signals_db, performance_db, mon, pu>>

\* create_signal: the signal dict, with the clock read of created_at
GenStamp ==
    /\ gen.pc = "stamp"
    /\ gen' = [gen EXCEPT !.pc = "arm",
                          !.signal = NewSignal(gen.i, gen.direction, gen.strategy,
                                               gen.entry, gen.confidence,
                                               gen.volatility, gen.t_expiry, now)]
    /\ UNCHANGED <<now, market_open, high_impact_news, live_prices, signal_cooldown,
                   performance, signals_db, performance_db, mon, pu>>

\* create_signal: the cooldown, with its own clock read, and the return
GenArm ==
    /\ gen.pc = "arm"
    /\ signal_cooldown' = [signal_cooldown EXCEPT ![gen.i] = ArmedUntil(now)]
    /\ gen' = [gen EXCEPT !.pc = "put"]
    /\ UNCHANGED <<now, market_open, high_impact_news, live_prices, performance,
                   signals_db, performance_db, mon, pu>>

\* signals_db.put(signal): stored under a fresh key, or an exception
GenPut ==
    /\ gen.pc = "put"
    /\ \E ok \in BOOLEAN :
          IF ok
          THEN /\ signals_db' = Append(signals_db, gen.signal)
               /\ gen' = [gen EXCEPT !.pc = "count"]
          ELSE /\ gen' = GenOnError
               /\ UNCHANGED signals_db
    /\ UNCHANGED <<now, market_open, high_impact_news, live_prices, signal_cooldown,
                   performance, performance_db, mon, pu>>

\* total_signals += 1, then send_signal_alert: sent, or users_db.fetch raises
GenCount ==
    /\ gen.pc = "count"
    /\ performance' = [performance EXCEPT !.total_signals = @ + 1]
    /\ \E ok \in BOOLEAN :
          gen' = IF ok THEN GenNextPair ELSE GenOnError
    /\ UNCHANGED <<now, market_open, high_impact_news, live_prices, signal_cooldown,
                   signals_db, performance_db, mon, pu>>

\* ------------------------------------------------------------ signal_monitor

\* where the monitor is after its except clause has logged an exception
MonOnError == MonIdle("sleep")

\* the monitor after the body of the for loop: the next signal, or time.sleep(30)
MonNextItem ==
    IF mon.j + 1 <= Len(mon.items)
    THEN [mon EXCEPT !.pc = "scan", !.j = mon.j + 1, !.close_type = NoReason]
    ELSE MonIdle("sleep")

\* draws that never hit a level
OutcomesNone == {NoReason}

\* the outcome drawn for one signal: 80% a take profit, else 10% the stop
Outcomes == Reasons \cup {NoReason}

\* time.sleep(30) returns
MonWake ==
    /\ mon.pc = "sleep"
    /\ mon' = MonIdle("start")
    /\ UNCHANGED <<now, market_open, high_impact_news, live_prices, signal_cooldown,
                   performance, signals_db, performance_db, gen, pu>>

\* signals_db.fetch({"status": "active"}): the items, or an exception
MonFetch ==
    /\ mon.pc = "start"
    /\ \E ok \in BOOLEAN :
          IF ok
          THEN mon' = IF FetchActive(signals_db) = <<>>
                      THEN MonIdle("sleep")
                      ELSE [MonIdle("scan") EXCEPT !.j = 1,
                                                   !.items = FetchActive(signals_db)]
          ELSE mon' = MonOnError
    /\ UNCHANGED <<now, market_open, high_impact_news, live_prices, signal_cooldown,
                   performance, signals_db, performance_db, gen, pu>>

\* one signal of the loop: the price test, the draw, and close_signal up to its put
\* a price test that lets every signal through
UnavailableNever(current_price) == FALSE

\* if not current_price
Unavailable(current_price) == current_price = None

MonScan ==
    /\ mon.pc = "scan"
    /\ LET item == mon.items[mon.j] IN
       \E outcome \in Outcomes, ok \in BOOLEAN :
          IF Unavailable(live_prices[item.signal.pair]) \/ outcome = NoReason
          THEN /\ mon' = MonNextItem
               /\ UNCHANGED signals_db
          ELSE IF ok
          THEN /\ signals_db' = [signals_db EXCEPT
                                   ![item.key] = Closed(item.signal, now, outcome)]
               /\ mon' = [mon EXCEPT !.pc = "count", !.close_type = outcome]
          ELSE /\ mon' = MonOnError
               /\ UNCHANGED signals_db
    /\ UNCHANGED <<now, market_open, high_impact_news, live_prices, signal_cooldown,
                   performance, performance_db, gen, pu>>

\* notify_users: sent, or users_db.fetch raises
MonNotify(ok) == mon' = IF ok THEN MonNextItem ELSE MonOnError

\* close_signal: the counter, the snapshot test and, with no snapshot due, the notification
MonCount ==
    /\ mon.pc = "count"
    /\ performance' = Hit(performance, mon.close_type)
    /\ IF SnapshotDue(performance)
       THEN mon' = [mon EXCEPT !.pc = "snapshot"]
       ELSE \E ok \in BOOLEAN : MonNotify(ok)
    /\ UNCHANGED <<now, market_open, high_impact_news, live_prices, signal_cooldown,
                   signals_db, performance_db, gen, pu>>

\* close_signal: performance_db.put(self.performance), then the notification
MonSnapshot ==
    /\ mon.pc = "snapshot"
    /\ \E stored \in BOOLEAN, ok \in BOOLEAN :
          IF stored
          THEN /\ performance_db' = performance_db \cup {performance}
               /\ MonNotify(ok)
          ELSE /\ mon' = MonOnError
               /\ UNCHANGED <<performance_db>>
    /\ UNCHANGED <<now, market_open, high_impact_news, live_prices, signal_cooldown,
                   performance, signals_db, gen, pu>>

\* ------------------------------------------------------------ specification
GenNext == GenWake \/ GenStart \/ GenGate \/ GenLevels \/ GenStamp \/ GenArm
              \/ GenPut \/ GenCount

MonNext == MonWake \/ MonFetch \/ MonScan \/ MonCount \/ MonSnapshot

EnvNext == Tick \/ MarketHoursChecker \/ NewsMonitor \/ PriceStart \/ PriceUpdate

Next == GenNext \/ MonNext \/ EnvNext

Spec == Init /\ [][Next]_vars

\* ------------------------------------------------------------ create_signal alone

\* entry prices create_signal is called with: 1800.00, 1.08, 140.00, 0.01
Entries == {180000, 108, 14000, 1}

\* a call create_signal(pair, direction, strategy, entry, confidence), with the
\* value random.uniform will return
FactoryCall ==
    /\ gen.pc = "sleep"
    /\ \E pair \in Pairs, direction \in Directions, strategy \in Strategies,
          entry \in Entries, confidence \in ConfSamples, volatility \in VolRange :
          gen' = [GenIdle("levels") EXCEPT !.i = pair, !.direction = direction,
                                          !.strategy = strategy, !.entry = entry,
                                          !.confidence = confidence,
                                          !.volatility = volatility]
    /\ UNCHANGED <<now, market_open, high_impact_news, live_prices, signal_cooldown,
                   performance, signals_db, performance_db, mon, pu>>

\* the caller has the returned signal and drops it
FactoryReturn ==
    /\ gen.pc = "put"
    /\ gen' = GenIdle("sleep")
    /\ UNCHANGED <<now, market_open, high_impact_news, live_prices, signal_cooldown,
                   performance, signals_db, performance_db, mon, pu>>

\* the instants at which the wall clock is read around a call: those of the
\* running tasks and the cooldown-until of a cooldown armed at the start
CallInstants == Instants \cup {CooldownMinutes}

\* the wall clock around a call
FactoryTick ==
    /\ \E t \in CallInstants :
          /\ now < t
          /\ now' = t
    /\ UNCHANGED <<market_open, high_impact_news, live_prices, signal_cooldown,
                   performance, signals_db, performance_db, gen, mon, pu>>

FactoryNext == FactoryCall \/ GenLevels \/ GenStamp \/ GenArm \/ FactoryReturn
                 \/ FactoryTick

FactorySpec == Init /\ [][FactoryNext]_vars

\* a signal as the run before stored it
StoredBefore(pair) ==
    {NewSignal(pair, direction, strategy, fetch_simulated_price(pair, volatility, sign),
               confidence, volatility, 0, 0) :
        direction \in DirectionSamples, strategy \in StrategySamples,
        volatility \in VolSamples, sign \in SignSamples, confidence \in ConfSamples}

\* the bot started again: the signals base still holds the active signals of the
\* run before, the fields of __init__ are fresh (no price yet)
RestartInit ==
    /\ now = 0
    /\ market_open = FALSE
    /\ high_impact_news = FALSE
    /\ live_prices = [p \in Pairs |-> None]
    /\ signal_cooldown = [p \in Pairs |-> None]
    /\ performance = [total_signals |-> 0, tp1_hits |-> 0, tp2_hits |-> 0,
                      tp3_hits |-> 0, sl_hits |-> 0]
    /\ \E p \in Pairs, q \in Pairs :
          \E first \in StoredBefore(p), second \in StoredBefore(q) :
             signals_db = <<first, second>>
    /\ performance_db = {}
    /\ gen = GenIdle("sleep")
    /\ mon = MonIdle("sleep")
    /\ pu = 0

\* the monitor and the market data tasks over the signals of the run before
RestartNext == MonNext \/ EnvNext

RestartSpec == RestartInit /\ [][RestartNext]_vars

\* entry prices that are no prices: 0.00 and -1.08
BadEntries == {0, -108}

\* a call create_signal(pair, direction, strategy, entry, confidence) with an
\* entry that is not positive
FactoryBadCall ==
    /\ gen.pc = "sleep"
    /\ \E pair \in Pairs, direction \in Directions, strategy \in Strategies,
          entry \in BadEntries, confidence \in ConfSamples, volatility \in VolSamples :
          gen' = [GenIdle("levels") EXCEPT !.i = pair, !.direction = direction,
                                          !.strategy = strategy, !.entry = entry,
                                          !.confidence = confidence,
                                          !.volatility = volatility]
    /\ UNCHANGED <<now, market_open, high_impact_news, live_prices, signal_cooldown,
                   performance, signals_db, performance_db, mon, pu>>

BadCallNext == FactoryBadCall \/ GenLevels \/ GenStamp \/ GenArm \/ FactoryReturn
                 \/ FactoryTick

BadCallSpec == Init /\ [][BadCallNext]_vars

\* ------------------------------------------------------------ close_signal alone

\* how many times close_signal is called
MaxCloses == 3

HitCount == performance.tp1_hits + performance.tp2_hits + performance.tp3_hits
              + performance.sl_hits

\* a signal as the generator stores it
CloseStore ==
    /\ Len(signals_db) < MaxSignals
    /\ \E pair \in Pairs, strategy \in StrategySamples, direction \in DirectionSamples,
          confidence \in ConfSamples, volatility \in VolSamples, sign \in SignSamples :
          signals_db' = Append(signals_db,
              NewSignal(pair, direction, strategy,
                        fetch_simulated_price(pair, volatility, sign),
                        confidence, volatility, now, now))
    /\ performance' = [performance EXCEPT !.total_signals = @ + 1]
    /\ UNCHANGED <<now, market_open, high_impact_news, live_prices, signal_cooldown,
                   performance_db, gen, mon, pu>>

\* a call close_signal(signal, message, close_type) on a stored signal, run to its end
CloseCall ==
    /\ HitCount < MaxCloses
    /\ \E k \in 1 .. Len(signals_db), close_type \in Reasons :
          /\ signals_db' = [signals_db EXCEPT
                              ![k] = Closed(signals_db[k], now, close_type)]
          /\ performance' = Hit(performance, close_type)
          /\ performance_db' = IF SnapshotDue(performance)
                                THEN performance_db \cup {Hit(performance, close_type)}
                                ELSE performance_db
    /\ UNCHANGED <<now, market_open, high_impact_news, live_prices, signal_cooldown,
                   gen, mon, pu>>

CloseNext == CloseStore \/ CloseCall \/ Tick

CloseSpec == Init /\ [][CloseNext]_vars

\* ------------------------------------------------------------ claims

StoredKeys == 1 .. Len(signals_db)

StoredWellFormed ==
    \A k \in StoredKeys :
        \/ /\ signals_db[k].status = "active"
           /\ signals_db[k].close_reason = NoReason
           /\ signals_db[k].closed_at = None
        \/ /\ signals_db[k].status = "closed"
           /\ signals_db[k].closed_at # None
           /\ signals_db[k].close_reason \in Reasons

PutsActive ==
    \A k \in 1 .. Len(signals_db') :
        k > Len(signals_db) =>
            /\ signals_db'[k].status = "active"
            /\ signals_db'[k].close_reason = NoReason
            /\ signals_db'[k].closed_at = None
            /\ gen.pc = "put"

\* C1: every stored signal is ACTIVE with no close_reason and no closed_at, or
\* CLOSED with closed_at set and close_reason one of tp1, tp2, tp3, sl; and a
\* record enters the store only by the generator's put, with status ACTIVE.
SignalRecordInvariant == []StoredWellFormed /\ [][PutsActive]_vars

\* a later monitor tick is scanning next to a CLOSED and an ACTIVE record
OneClosedOneActive ==
    /\ \E k \in StoredKeys : signals_db[k].status = "closed"
    /\ \E k \in StoredKeys : signals_db[k].status = "active"
    /\ mon.pc = "scan"

\* C2: once CLOSED a stored signal keeps its status, close_reason and closed_at
\* (and every other field), no record is deleted, and a step that changes a
\* stored record is the monitor's close of that ACTIVE record.
ClosedIsFinal ==
    [][/\ Len(signals_db') >= Len(signals_db)
       /\ \A k \in StoredKeys :
            /\ signals_db[k].status = "closed" => signals_db'[k] = signals_db[k]
            /\ signals_db'[k] # signals_db[k] =>
                  /\ mon.pc = "scan"
                  /\ mon.items[mon.j].key = k
                  /\ signals_db[k].status = "active"
                  /\ signals_db'[k].status = "closed"
                  /\ gen' = gen]_vars

\* after a close the monitor starts a tick again while the generator is storing
ClosedAndBothBusy ==
    /\ \E k \in StoredKeys : signals_db[k].status = "closed"
    /\ mon.pc = "start"
    /\ gen.pc = "put"

\* C3: the monitor's step for an ACTIVE signal whose expiry has passed leaves it
\* CLOSED in the store, whatever the price and the draw.
ExpiredIsClosed ==
    [][(/\ mon.pc = "scan"
        /\ mon' # mon
        /\ now > mon.items[mon.j].signal.expiry)
       => signals_db'[mon.items[mon.j].key].status = "closed"]_vars

\* C4: no signal is being built for a pair whose cooldown-until lies in the
\* future, and two stored signals of one pair are at least a cooldown apart.
CooldownRespected ==
    /\ gen.pc \in {"levels", "stamp", "arm"} =>
          ~ (signal_cooldown[gen.i] # None /\ now < signal_cooldown[gen.i])
    /\ \A k1 \in StoredKeys, k2 \in StoredKeys :
          (k1 < k2 /\ signals_db[k1].pair = signals_db[k2].pair) =>
              signals_db[k2].created_at - signals_db[k1].created_at >= CooldownMinutes

\* two signals of one pair are stored, and a third tick finds the pair in cooldown
TwoSignalsOnePair ==
    /\ Len(signals_db) = 2
    /\ signals_db[1].pair = signals_db[2].pair
    /\ gen.pc = "gate"
    /\ gen.i = signals_db[1].pair
    /\ is_cooldown(gen.i)

NothingCreated ==
    /\ signals_db' = signals_db
    /\ performance.total_signals' = performance.total_signals
    /\ signal_cooldown' = signal_cooldown

\* C5: a generator tick that starts while the market-open flag is false ends at
\* once, and a pair reached while the flag is false is skipped: neither stores a
\* signal, changes total_signals or arms a cooldown.
ClosedSessionCreatesNothing ==
    [][(~ market_open /\ gen' # gen) =>
          /\ gen.pc = "start" => (gen'.pc = "sleep" /\ NothingCreated)
          /\ gen.pc = "gate" => (gen'.pc \in {"gate", "sleep"} /\ NothingCreated)]_vars

\* the flag is false at a pair that news, cooldown, price and room would let through
OnlySessionGateBlocks ==
    /\ gen.pc = "gate"
    /\ ~ market_open
    /\ ~ high_impact_news
    /\ ~ is_cooldown(gen.i)
    /\ live_prices[gen.i] # None
    /\ Len(signals_db) < MaxSignals

\* C6: an error at one item does not end the tick: while a pair of PAIRS (a
\* fetched signal) is still to come, no step of the generator (the monitor) takes
\* it to its sleep.
TickOutlivesItemError ==
    [][/\ (gen.pc \in {"gate", "levels", "stamp", "arm", "put", "count"}
           /\ gen.i + 1 \in Pairs) => gen'.pc # "sleep"
       /\ (mon.pc \in {"scan", "count", "snapshot"}
           /\ mon.j + 1 <= Len(mon.items)) => mon'.pc # "sleep"]_vars

\* C8: a call of close_signal on a stored signal that is already CLOSED leaves
\* the record and every performance counter as they were.
CloseIsIdempotent ==
    [][/\ \A k \in StoredKeys :
            signals_db[k].status = "closed" => signals_db'[k] = signals_db[k]
       /\ (/\ Len(signals_db') = Len(signals_db)
           /\ \A k \in StoredKeys : signals_db'[k].status = signals_db[k].status)
          => performance' = performance]_vars

Ordered(signal) ==
    IF signal.direction = "BUY"
    THEN /\ signal.sl < signal.entry * 10000
         /\ signal.entry * 10000 < signal.tp1
         /\ signal.tp1 < signal.tp2
         /\ signal.tp2 < signal.tp3
    ELSE /\ signal.sl > signal.entry * 10000
         /\ signal.entry * 10000 > signal.tp1
         /\ signal.tp1 > signal.tp2
         /\ signal.tp2 > signal.tp3

Positive(signal) ==
    /\ signal.entry > 0
    /\ signal.tp1 > 0
    /\ signal.tp2 > 0
    /\ signal.tp3 > 0
    /\ signal.sl > 0

\* C9: the signal create_signal returns for an entry > 0 and a volatility in
\* [0.001, 0.005] has sl < entry < tp1 < tp2 < tp3 for BUY and
\* sl > entry > tp1 > tp2 > tp3 for SELL, all of them positive.
LevelsOrdered ==
    gen.pc \in {"arm", "put"} => (Ordered(gen.signal) /\ Positive(gen.signal))

\* create_signal has returned a SELL intraday signal at the widest volatility
SellIntradayReturned ==
    /\ gen.pc = "put"
    /\ gen.signal.direction = "SELL"
    /\ gen.signal.strategy = "intraday"
    /\ gen.volatility = 5

\* the multipliers of tp1, tp2, tp3 and sl, in 1/10
StatedMult(strategy) ==
    IF strategy = "scalping" THEN <<10, 15, 20, 7>> ELSE <<15, 25, 40, 12>>

\* entry * (1 + s * k * volatility), where target is TRUE for a take profit
Stated(signal, volatility, k, target) ==
    IF (signal.direction = "BUY") = target
    THEN signal.entry * 10000 + signal.entry * k * volatility
    ELSE signal.entry * 10000 - signal.entry * k * volatility

\* C10: every level of the returned signal is entry * (1 + s * k * volatility)
\* with k = 1.0, 1.5, 2.0 and 0.7 for scalping, 1.5, 2.5, 4.0 and 1.2 for
\* intraday; entry 1800.0, BUY, scalping, volatility 0.002 gives 1803.6, 1805.4,
\* 1807.2 and 1797.48.
LevelsAsStated ==
    gen.pc \in {"arm", "put"} =>
        /\ gen.signal.tp1 =
              Stated(gen.signal, gen.volatility, StatedMult(gen.strategy)[1], TRUE)
        /\ gen.signal.tp2 =
              Stated(gen.signal, gen.volatility, StatedMult(gen.strategy)[2], TRUE)
        /\ gen.signal.tp3 =
              Stated(gen.signal, gen.volatility, StatedMult(gen.strategy)[3], TRUE)
        /\ gen.signal.sl =
              Stated(gen.signal, gen.volatility, StatedMult(gen.strategy)[4], FALSE)
        /\ (/\ gen.entry = 180000
            /\ gen.direction = "BUY"
            /\ gen.strategy = "scalping"
            /\ gen.volatility = 2)
           => /\ gen.signal.tp1 = 1803600000
              /\ gen.signal.tp2 = 1805400000
              /\ gen.signal.tp3 = 1807200000
              /\ gen.signal.sl = 1797480000

\* create_signal has returned for entry 1800.0, BUY, scalping, volatility 0.002
ScenarioReturned ==
    /\ gen.pc = "put"
    /\ gen.entry = 180000
    /\ gen.direction = "BUY"
    /\ gen.strategy = "scalping"
    /\ gen.volatility = 2
    /\ gen.signal.tp1 = 1803600000

\* C11: the signal create_signal returns has expiry - created_at equal to 30
\* minutes for scalping and to 4 hours for intraday, also when the clock moves
\* between the clock reads of create_signal.
ExpiryHorizonExact ==
    gen.pc \in {"arm", "put"} =>
        gen.signal.expiry - gen.signal.created_at = Horizon(gen.signal.strategy)

CooldownAsStated ==
    \A p \in Pairs :
        is_cooldown(p) <=> (signal_cooldown[p] # None /\ now < signal_cooldown[p])

ArmingBlocks ==
    /\ (gen.pc = "arm" /\ gen'.pc = "put") =>
          /\ signal_cooldown'[gen.i] = now + CooldownMinutes
          /\ is_cooldown(gen.i)'
    /\ \A p \in Pairs : signal_cooldown[p] # None => signal_cooldown'[p] # None

\* C12: the cooldown check of a pair is true exactly when the pair has a
\* cooldown-until and the clock is strictly before it (so a pair never armed is
\* not blocked, and an armed one is unblocked from its cooldown-until on); the
\* arming of create_signal sets it 5 minutes ahead and the pair is blocked right
\* after it; no step deletes an entry.
CooldownCheckExact == []CooldownAsStated /\ [][ArmingBlocks]_vars

\* the clock stands at the cooldown-until of an armed pair, beside a pair never armed
AtCooldownUntil ==
    /\ \E p \in Pairs : signal_cooldown[p] = now
    /\ \E p \in Pairs : signal_cooldown[p] = None
    /\ gen.pc = "sleep"

\* C13: create_signal rejects an entry that is not positive before it changes
\* anything: it gets to no signal record and to no cooldown for it.
BadEntryRejected ==
    gen.pc \in {"stamp", "arm", "put"} => gen.entry > 0

NothingIssuedOrClosed == performance.total_signals = 0 /\ HitCount = 0

\* C14: /stats never divides by zero: its denominator is max(1, total_signals),
\* and with no signal issued and none closed every hit rate is 0% and the
\* win rate is 100 - sl_rate = 100.
StatsNeverDividesByZero ==
    LET reply == stats(performance)
    IN /\ ~reply.raised
       /\ reply.total_signals >= 1
       /\ reply.total_signals >= performance.total_signals
       /\ reply.total_signals \in {1, performance.total_signals}
       /\ reply.win_rate = Percent - reply.sl_rate
       /\ NothingIssuedOrClosed =>
             /\ reply.tp1_rate = 0 /\ reply.tp2_rate = 0
             /\ reply.tp3_rate = 0 /\ reply.sl_rate = 0
             /\ reply.win_rate = Percent

\* /stats asked before anything was issued, while the first signal is on its way
StatsBeforeFirstSignal ==
    /\ NothingIssuedOrClosed
    /\ gen.pc = "put"
    /\ stats(performance).win_rate = Percent

\* C15: arming the cooldown and creating the signal are one step: a pair has a
\* cooldown entry only for a signal that the generator also persisted (or is
\* about to put), so a failed put leaves the pair's cooldown as it was.
CooldownOnlyWithStoredSignal ==
    \A p \in Pairs :
        signal_cooldown[p] # None =>
            \/ \E k \in StoredKeys : signals_db[k].pair = p
            \/ gen.pc = "put" /\ gen.i = p

Counter(perf, r) ==
    IF r = "tp1" THEN perf.tp1_hits
    ELSE IF r = "tp2" THEN perf.tp2_hits
    ELSE IF r = "tp3" THEN perf.tp3_hits
    ELSE perf.sl_hits

ClosedWith(r) == Cardinality({k \in StoredKeys : signals_db[k].close_reason = r})

\* 1 while the step that stored something has not counted it yet
PutNotCounted == IF gen.pc = "count" THEN 1 ELSE 0
CloseNotCounted(r) == IF mon.pc = "count" /\ mon.close_type = r THEN 1 ELSE 0

CountersFollowStore ==
    /\ performance.total_signals = Len(signals_db) - PutNotCounted
    /\ \A r \in Reasons :
          Counter(performance, r) = ClosedWith(r) - CloseNotCounted(r)

CountersStepByOne ==
    /\ performance'.total_signals \in
          {performance.total_signals, performance.total_signals + 1}
    /\ performance'.total_signals # performance.total_signals =>
          /\ gen.pc = "count"
          /\ \A r \in Reasons : Counter(performance', r) = Counter(performance, r)
    /\ \A r \in Reasons :
          /\ Counter(performance', r) \in
                {Counter(performance, r), Counter(performance, r) + 1}
          /\ Counter(performance', r) # Counter(performance, r) =>
                /\ mon.pc = "count" /\ mon.close_type = r
                /\ signals_db[mon.items[mon.j].key].close_reason = r
                /\ performance'.total_signals = performance.total_signals
                /\ \A q \in Reasons \ {r} :
                      Counter(performance', q) = Counter(performance, q)

\* C16: the counters follow the store and never run ahead of it: total_signals
\* goes up by exactly 1 after a put that succeeded and never after one that
\* failed; a close adds exactly 1 to the counter of its close_reason, after the
\* closed record was stored, and leaves the others alone; so outside a step in
\* progress total_signals is the number of stored signals and each hit counter
\* the number of closes with its reason; no counter ever decreases.
CountersNeverAhead ==
    /\ []CountersFollowStore
    /\ [][performance' # performance => CountersStepByOne]_vars

\* both tasks asleep, two signals issued and closed with different reasons
TwoClosesCounted ==
    /\ gen.pc = "sleep" /\ mon.pc = "sleep"
    /\ performance.total_signals = 2
    /\ performance.tp2_hits = 1 /\ performance.sl_hits = 1

SkippedWithoutPrice ==
    LET item == mon.items[mon.j]
    IN (mon.pc = "scan" /\ mon' # mon /\ live_prices[item.signal.pair] = None) =>
          /\ signals_db' = signals_db
          /\ signals_db[item.key].status = "active"
          /\ performance' = performance
          /\ performance_db' = performance_db
          /\ mon' = MonNextItem

FetchedAgain ==
    (mon.pc = "start" /\ mon'.pc = "scan") =>
        \A k \in ActiveKeys(signals_db) :
            \E n \in 1 .. Len(mon'.items) : mon'.items[n].key = k

\* C17: a signal whose pair has no price when the monitor comes to it is skipped
\* for this tick: its record stays active and unchanged, no counter changes,
\* no snapshot is stored, the monitor goes on to the next signal without the
\* close and its notification, and the next fetch returns the signal again.
NoPriceSkips == [][SkippedWithoutPrice /\ FetchedAgain]_vars

\* the monitor has passed a signal without a price and is at the next one
PassedSignalWithoutPrice ==
    /\ mon.pc = "scan" /\ mon.j = 2
    /\ live_prices[mon.items[1].signal.pair] = None
    /\ signals_db[mon.items[1].key].status = "active"

\* C18: the counters are snapshotted every 10th signal: every snapshot in the
\* performance base carries a total_signals that is a multiple of 10, whatever
\* the generator does between the test and the put of the close.
SnapshotsOnTenth ==
    \A snapshot \in performance_db : snapshot.total_signals % SnapshotEvery = 0

\* C19: from an empty store and zero counters, in every state of the generator
\* and the monitor running side by side, the hits do not exceed the signals
\* issued, tp1_hits + tp2_hits + tp3_hits + sl_hits <= total_signals, so the
\* win rate of /stats stays within 0..100, also between the generator's put
\* and its increment of total_signals.
HitsWithinIssued ==
    /\ HitCount <= performance.total_signals
    /\ performance.sl_hits <= stats(performance).total_signals
    /\ stats(performance).win_rate \in 0 .. Percent

\* ------------------------------------------------------------ fairness

\* Each task is a thread of its own: it is scheduled again and again.
LiveSpec == Spec /\ WF_vars(GenNext) /\ WF_vars(MonNext)

\* C7: no failure inside a tick terminates a periodic task: whatever a generator
\* or monitor tick ran into, the task comes back from its sleep and starts a tick
\* again and again (a tick starts only out of the sleep that ends the tick before).
TicksForever ==
    /\ []<>(gen.pc = "start")
    /\ []<>(mon.pc = "start")

\* a put failed (the cooldown is armed, nothing is stored) and the generator has
\* started a tick again
TickAfterFailedPut ==
    /\ gen.pc = "start"
    /\ signals_db = <<>>
    /\ \E p \in Pairs : signal_cooldown[p] # None

\* a fetch that returns the active signals
FetchOk == MonFetch /\ mon'.pc = "scan"

\* the monitor's draw closes the stored signal k and its put succeeds
CloseOf(k) ==
    /\ MonScan
    /\ k \in ActiveKeys(signals_db)
    /\ signals_db'[k].status = "closed"

\* the monitor keeps ticking, its store operations succeed in the end and no
\* signal is passed over by the draws for ever.
\* the tasks that the fate of a stored signal depends on: the generator that
\* stores it, the monitor, and the market hours and prices the two read
ResolvingNext ==
    GenNext \/ MonNext \/ MarketHoursChecker \/ PriceStart \/ PriceUpdate \/ Tick

ResolvingSpec ==
    /\ Init /\ [][ResolvingNext]_vars
    /\ WF_vars(MonNext)
    /\ SF_vars(FetchOk)
    /\ \A k \in 1 .. MaxSignals : SF_vars(CloseOf(k))

\* C20: every stored active signal is closed in the end, given that the monitor
\* keeps ticking, that store operations succeed and that the draws do not
\* avoid a close for ever; the market closing does not stop it, since a price
\* once set is never taken back. (Stored signals stay stored and closed ones
\* stay closed, so it is enough that the store is without an active signal
\* again and again.)
ActiveEventuallyClosed == []<>(ActiveKeys(signals_db) = {})

\* a signal closed while the market is closed
ClosedAfterMarketClose ==
    /\ ~market_open
    /\ mon.pc = "count"
    /\ signals_db[mon.items[mon.j].key].status = "closed"

====
